---- MODULE Spec2Model ----
(***************************************************************************)
(* Container Fleet Orchestrator (services/docker-orchestrator).            *)
(*                                                                         *)
(* The model covers DockerService (deploy_agent, start/stop/remove),       *)
(* ContainerManager (batch stop / remove of a deployment), the deploy      *)
(* route, the get_container route and ResourceMonitor (TTL cache).         *)
(*                                                                         *)
(* Handlers are atomic actions: the engine client is blocking and the      *)
(* coroutines that wrap it never suspend, so the event loop runs each of   *)
(* them to completion.                                                     *)
(*                                                                         *)
(* The container engine is an external collaborator.  Its calls either     *)
(* succeed with Docker's documented effect or fail without any effect;     *)
(* which one happens is an input of the action (a "fault").  A lookup of   *)
(* a container that does not exist answers NotFound.                       *)
(***************************************************************************)
EXTENDS Integers, Sequences, FiniteSets, TLC

\* ------------------------------------------------------------------ bounds
\* Deployment ids / container ids available to the model (uuid4 values).
NumIds == 3
\* Containers the monitor specification starts with and queries.
MonIds == 1
\* Container ids a metrics batch may name, and the longest batch.
BatchIds == 3
MaxBatch == 2
\* Last instant of the model clock.
MaxTime == 6
\* Largest advance of the clock between two successive clock reads.
MaxDrift == 1
\* Lines the watched container writes, the clock of the log runs and the
\* largest `tail` a consumer asks for.
MaxLines == 2
LogTime == 1
MaxTail == 1
\* AnalyticsStore(max_events): the capacity the store is built with; the
\* number of add_event calls; the largest age limit of a pruning.
max_events == 2
MaxAdded == 4
MaxDays == 1
\* Largest value of a cumulative cpu counter in a stats sample.
MaxCounter == 3
\* Longest sampling interval of a rate call, and the time at which the
\* engine's network counters restart.
MaxInterval == 2
\* Longest string of a request field.
MaxStr == 3
\* Longest message of a log line, in tokens.
MaxWords == 2
ResetAt == 3

\* ------------------------------------------------------- program constants
\* settings.MAX_CONTAINERS: a deployment setting between 1 and 200; the
\* model runs with a small cap so that the fleet can reach it.
MAX_CONTAINERS == 2
\* ResourceMonitor._cache_ttl, in seconds.
cache_ttl == 5

Ids == 1..NumIds
MIds == 1..MonIds
BIds == 1..BatchIds
\* Two consumers may watch the log of the container at the same time.
Streams == {1, 2}

VARIABLES
    containers,  \* engine: container id -> [dep, status]; status "none" = no such container
    dirs,        \* code root: deployment id -> [exists, files]
    nextId,      \* next fresh deployment id (uuid4 never repeats)
    cache,       \* ResourceMonitor._cache: container id -> [has, ts, at]
    now,         \* wall clock (seconds)
    last,        \* the last operation called, its inputs and what the caller observed
    emitted,     \* engine: the log lines the watched container has emitted, in order
    registry,    \* LogStreamer._active_streams holds the key of the watched container
    streams,     \* log stream sessions: consumer -> [pc, pos, conn, lastTs, stopped]
    events,      \* AnalyticsStore._events (a deque with maxlen)
    added,       \* number of events add_event was asked to add
    pruned,      \* number of events clear_old_events removed
    restarts,    \* restart_container calls between their stop and their start
    deploying    \* deploy calls between their cap check and their engine calls

svcVars == <<emitted, registry, streams, events, added, pruned, restarts, deploying>>
vars == <<containers, dirs, nextId, cache, now, last, svcVars>>

\* ------------------------------------------------------------ filesystem
Files == {"flow.py", "agents.yaml", "requirements.txt"}
NoDir == [exists |-> FALSE, files |-> {}]
NoContainer == [dep |-> 0, status |-> "none"]
NoEntry == [has |-> FALSE, ts |-> 0, at |-> 0]

\* Log streamer and analytics store before anything used them.
NoStream == [pc |-> "idle", pos |-> 0, conn |-> "none", lastTs |-> 0, stopped |-> FALSE]
IdleServices ==
    /\ emitted = <<>>
    /\ registry = FALSE
    /\ streams = [s \in Streams |-> NoStream]
    /\ events = <<>>
    /\ added = 0
    /\ pruned = 0
    /\ restarts = [c \in Ids |-> FALSE]
    /\ deploying = {}

\* DockerService._write_agent_code: makedirs(exist_ok), flow.py, agents.yaml,
\* and requirements.txt only when requirements is a non-empty list.
WriteAgentCode(ds, d, hasReqs) ==
    [ds EXCEPT ![d] = [exists |-> TRUE,
                       files |-> ds[d].files \cup {"flow.py", "agents.yaml"}
                                 \cup (IF hasReqs THEN {"requirements.txt"} ELSE {})]]

\* Variant: the rmtree is given the code root, not the deployment's directory.
CleanupDeploymentDir_Root(ds, d) ==
    IF ds[d].exists THEN [e \in Ids |-> NoDir] ELSE ds

\* DockerService._cleanup_deployment_dir: rmtree when the directory exists,
\* nothing (and no error) when it does not.
CleanupDeploymentDir(ds, d) ==
    IF ds[d].exists THEN [ds EXCEPT ![d] = NoDir] ELSE ds

\* ----------------------------------------------------------------- engine
Exists(cs, c) == cs[c].status # "none"
\* containers.list(all=True, filters={"label": "laias=agent"})
ListContainers(cs) == {c \in Ids : Exists(cs, c)}
\* ContainerManager.get_deployment_containers
GetDeploymentContainers(cs, d) == {c \in ListContainers(cs) : cs[c].dep = d}

\* container.start(): a created or exited container runs; a running one stays.
EngineStart(s) == IF s \in {"created", "exited"} THEN "running" ELSE s
\* container.stop(): a running container exits; any other stays as it is.
EngineStop(s) == IF s = "running" THEN "exited" ELSE s

\* The ids of a set in increasing order (the order of the engine's listing).
RECURSIVE SetToSeq(_)
SetToSeq(S) ==
    IF S = {} THEN <<>>
    ELSE LET m == CHOOSE x \in S : \A y \in S : x <= y
         IN <<m>> \o SetToSeq(S \ {m})

\* ---------------------------------------------------------- DockerService
\* deploy_agent: write the code, create the container; only an APIError of
\* the create call runs the directory cleanup before it is re-raised.
DeployAgent(cs, ds, d, c, createFault) ==
    LET ds1 == WriteAgentCode(ds, d, FALSE)
    IN IF createFault = "none"
       THEN [containers |-> [cs EXCEPT ![c] = [dep |-> d, status |-> "created"]],
             dirs |-> ds1, res |-> "ok"]
       ELSE IF createFault = "APIError"
       THEN [containers |-> cs, dirs |-> CleanupDeploymentDir(ds1, d), res |-> "APIError"]
       ELSE [containers |-> cs, dirs |-> ds1, res |-> createFault]

\* Variant: starting a container that already runs is refused.
StartContainer_Strict(cs, c, fault) ==
    IF ~Exists(cs, c) THEN [containers |-> cs, res |-> "NotFound"]
    ELSE IF fault THEN [containers |-> cs, res |-> "APIError"]
    ELSE IF cs[c].status = "running" THEN [containers |-> cs, res |-> "Conflict"]
    ELSE [containers |-> [cs EXCEPT ![c].status = EngineStart(@)], res |-> "ok"]

\* start_container
StartContainer(cs, c, fault) ==
    IF ~Exists(cs, c) THEN [containers |-> cs, res |-> "NotFound"]
    ELSE IF fault THEN [containers |-> cs, res |-> "APIError"]
    ELSE [containers |-> [cs EXCEPT ![c].status = EngineStart(@)], res |-> "ok"]

\* stop_container
StopContainer(cs, c, fault) ==
    IF ~Exists(cs, c) THEN [containers |-> cs, res |-> "NotFound"]
    ELSE IF fault THEN [containers |-> cs, res |-> "APIError"]
    ELSE [containers |-> [cs EXCEPT ![c].status = EngineStop(@)], res |-> "ok"]

\* Mutant: the container is removed and its code directory is forgotten.
RemoveContainer_NoCleanup(cs, ds, c, force, fault) ==
    IF ~Exists(cs, c) THEN [containers |-> cs, dirs |-> ds, res |-> "ok"]
    ELSE IF fault \/ (~force /\ cs[c].status = "running")
    THEN [containers |-> cs, dirs |-> ds, res |-> "APIError"]
    ELSE [containers |-> [cs EXCEPT ![c] = NoContainer], dirs |-> ds, res |-> "ok"]

\* Mutant: the force flag is not passed on, every removal is forced.
RemoveContainer_AlwaysForce(cs, ds, c, force, fault) ==
    IF ~Exists(cs, c) THEN [containers |-> cs, dirs |-> ds, res |-> "ok"]
    ELSE IF fault
    THEN [containers |-> cs, dirs |-> ds, res |-> "APIError"]
    ELSE [containers |-> [cs EXCEPT ![c] = NoContainer],
          dirs |-> CleanupDeploymentDir(ds, cs[c].dep), res |-> "ok"]

\* remove_container: NotFound is swallowed; the engine refuses to remove a
\* running container unless force is set; the code directory named by the
\* deployment_id label is cleaned after the container is gone.
RemoveContainer(cs, ds, c, force, fault) ==
    IF ~Exists(cs, c) THEN [containers |-> cs, dirs |-> ds, res |-> "ok"]
    ELSE IF fault \/ (~force /\ cs[c].status = "running")
    THEN [containers |-> cs, dirs |-> ds, res |-> "APIError"]
    ELSE [containers |-> [cs EXCEPT ![c] = NoContainer],
          dirs |-> CleanupDeploymentDir(ds, cs[c].dep), res |-> "ok"]

\* ----------------------------------------------------------- deploy route
\* Mutant: the cap check lets the fleet grow one past the cap.
OverLimit_OffByOne(count) == count > MAX_CONTAINERS

\* The cap check of the deploy route: container_count >= settings.MAX_CONTAINERS.
OverLimit(count) == count >= MAX_CONTAINERS

\* The failure path of the deploy route asks get_container_manager() for the
\* manager whose cleanup it wants to schedule; that call passes an argument
\* to a constructor that takes none, so it raises and nothing is scheduled:
\* the code root is left as deploy_agent left it.
RouteFailureCleanup(ds, d) == ds

\* ------------------------------------------------------------------ state
Init ==
    /\ containers = [c \in Ids |-> NoContainer]
    /\ dirs = [d \in Ids |-> NoDir]
    /\ nextId = 1
    /\ cache = [c \in Ids |-> NoEntry]
    /\ now = 0
    /\ last = [op |-> "init", id |-> 0, res |-> "ok"]
    /\ IdleServices

\* POST /api/deploy
Deploy(autoStart, listFault, createFault, startFault) ==
    LET fleet == Cardinality(ListContainers(containers))
    IN IF ~listFault /\ OverLimit(fleet)
       THEN /\ last' = [op |-> "deploy", id |-> 0, res |-> "ResourceLimitError",
                        auto |-> autoStart, listFault |-> listFault,
                        createFault |-> "none", startFault |-> FALSE, fleet |-> fleet]
            /\ UNCHANGED <<svcVars, containers, dirs, nextId, cache, now>>
       ELSE /\ nextId <= NumIds
            /\ LET d == nextId
                   r == DeployAgent(containers, dirs, d, d, createFault)
                   s == IF r.res = "ok" /\ autoStart
                        THEN StartContainer(r.containers, d, startFault)
                        ELSE [containers |-> r.containers, res |-> r.res]
               IN /\ containers' = s.containers
                  /\ dirs' = IF s.res = "ok" THEN r.dirs ELSE RouteFailureCleanup(r.dirs, d)
                  /\ nextId' = nextId + 1
                  /\ last' = [op |-> "deploy", id |-> d,
                              res |-> IF s.res = "ok" THEN "ok" ELSE "DeploymentFailed",
                              auto |-> autoStart, listFault |-> listFault,
                              createFault |-> createFault,
                              startFault |-> (r.res = "ok" /\ autoStart /\ startFault),
                              fleet |-> fleet]
            /\ UNCHANGED <<svcVars, cache, now>>

\* POST /api/containers/{id}/start  (DockerService.start_container)
Start(c, fault) ==
    LET r == StartContainer(containers, c, fault)
    IN /\ containers' = r.containers
       /\ last' = [op |-> "start", id |-> c, res |-> r.res,
                   retry |-> (last.op = "start" /\ last.id = c /\ last.res = "APIError")]
       /\ UNCHANGED <<svcVars, dirs, nextId, cache, now>>

\* POST /api/containers/{id}/stop  (DockerService.stop_container)
Stop(c, fault) ==
    LET r == StopContainer(containers, c, fault)
    IN /\ containers' = r.containers
       /\ last' = [op |-> "stop", id |-> c, res |-> r.res,
                   retry |-> (last.op = "stop" /\ last.id = c /\ last.res = "APIError")]
       /\ UNCHANGED <<svcVars, dirs, nextId, cache, now>>

\* DELETE /api/containers/{id}  (DockerService.remove_container)
Remove(c, force, fault) ==
    LET r == RemoveContainer(containers, dirs, c, force, fault)
    IN /\ containers' = r.containers
       /\ dirs' = r.dirs
       /\ last' = [op |-> "remove", id |-> c, res |-> r.res, force |-> force,
                   missing |-> ~Exists(containers, c),
                   changed |-> (r.containers # containers \/ r.dirs # dirs),
                   retry |-> (last.op = "remove" /\ last.id = c /\ last.res = "APIError")]
       /\ UNCHANGED <<svcVars, nextId, cache, now>>

\* ------------------------------------------------------- ContainerManager
\* Mutant: the try/except is around the loop, the first failure ends it.
RECURSIVE RemoveLoop_Abort(_, _, _, _)
RemoveLoop_Abort(cs, ds, todo, F) ==
    IF todo = <<>>
    THEN [containers |-> cs, dirs |-> ds, count |-> 0, attempted |-> {}]
    ELSE LET c == Head(todo)
             r == RemoveContainer(cs, ds, c, TRUE, c \in F)
         IN IF r.res # "ok"
            THEN [containers |-> cs, dirs |-> ds, count |-> 0, attempted |-> {c}]
            ELSE LET rest == RemoveLoop_Abort(r.containers, r.dirs, Tail(todo), F)
                 IN [containers |-> rest.containers, dirs |-> rest.dirs,
                     count |-> rest.count + 1,
                     attempted |-> rest.attempted \cup {c}]

\* The loop of remove_deployment: every listed container is removed with
\* force=True inside its own try/except; a failure is logged and skipped.
RECURSIVE RemoveLoop(_, _, _, _)
RemoveLoop(cs, ds, todo, F) ==
    IF todo = <<>>
    THEN [containers |-> cs, dirs |-> ds, count |-> 0, attempted |-> {}]
    ELSE LET c == Head(todo)
             r == RemoveContainer(cs, ds, c, TRUE, c \in F)
             rest == RemoveLoop(r.containers, r.dirs, Tail(todo), F)
         IN [containers |-> rest.containers, dirs |-> rest.dirs,
             count |-> rest.count + (IF r.res = "ok" THEN 1 ELSE 0),
             attempted |-> rest.attempted \cup {c}]

\* The loop of stop_all_deployment_containers: only the containers listed as
\* running are stopped, each inside its own try/except.
RECURSIVE StopLoop(_, _, _)
StopLoop(cs, todo, F) ==
    IF todo = <<>>
    THEN [containers |-> cs, count |-> 0, attempted |-> {}]
    ELSE LET c == Head(todo)
         IN IF cs[c].status = "running"
            THEN LET r == StopContainer(cs, c, c \in F)
                     rest == StopLoop(r.containers, Tail(todo), F)
                 IN [containers |-> rest.containers,
                     count |-> rest.count + (IF r.res = "ok" THEN 1 ELSE 0),
                     attempted |-> rest.attempted \cup {c}]
            ELSE StopLoop(cs, Tail(todo), F)

\* ContainerManager.remove_deployment; the listing is outside the try blocks.
RemoveDeployment(d, listFault, F) ==
    IF listFault
    THEN /\ last' = [op |-> "removeDeployment", id |-> d, res |-> "APIError", count |-> 0,
                     targets |-> {}, faults |-> {}, attempted |-> {}, afterDeploy |-> FALSE,
                     changed |-> FALSE]
         /\ UNCHANGED <<svcVars, containers, dirs, nextId, cache, now>>
    ELSE LET targets == GetDeploymentContainers(containers, d)
             r == RemoveLoop(containers, dirs, SetToSeq(targets), F)
         IN /\ containers' = r.containers
            /\ dirs' = r.dirs
            /\ last' = [op |-> "removeDeployment", id |-> d, res |-> "ok", count |-> r.count,
                        targets |-> targets, faults |-> F \cap targets,
                        attempted |-> r.attempted,
                        afterDeploy |-> (last.op = "deploy" /\ last.res = "ok" /\ last.id = d),
                        changed |-> (r.containers # containers \/ r.dirs # dirs)]
            /\ UNCHANGED <<svcVars, nextId, cache, now>>

\* ContainerManager.stop_all_deployment_containers
StopAll(d, listFault, F) ==
    IF listFault
    THEN /\ last' = [op |-> "stopAll", id |-> d, res |-> "APIError", count |-> 0,
                     targets |-> {}, faults |-> {}, attempted |-> {}]
         /\ UNCHANGED <<svcVars, containers, dirs, nextId, cache, now>>
    ELSE LET all == GetDeploymentContainers(containers, d)
             targets == {c \in all : containers[c].status = "running"}
             r == StopLoop(containers, SetToSeq(all), F)
         IN /\ containers' = r.containers
            /\ last' = [op |-> "stopAll", id |-> d, res |-> "ok", count |-> r.count,
                        targets |-> targets, faults |-> F \cap targets,
                        attempted |-> r.attempted]
            /\ UNCHANGED <<svcVars, dirs, nextId, cache, now>>

\* ------------------------------------------------------ lifecycle from an empty engine
Next ==
    \/ \E a \in BOOLEAN, lf \in BOOLEAN, cf \in {"none", "APIError", "EngineError"},
          sf \in BOOLEAN : Deploy(a, lf, cf, sf)
    \/ \E c \in Ids, f \in BOOLEAN : Start(c, f)
    \/ \E c \in Ids, f \in BOOLEAN : Stop(c, f)
    \/ \E c \in Ids, force \in BOOLEAN, f \in BOOLEAN : Remove(c, force, f)
    \/ \E d \in Ids : \E F \in SUBSET GetDeploymentContainers(containers, d) :
          RemoveDeployment(d, FALSE, F)
    \/ \E d \in Ids : RemoveDeployment(d, TRUE, {})

Spec == Init /\ [][Next]_vars

\* ------------------------------------------- batches over a populated engine
\* The engine's labels are the only record of which containers belong to a
\* deployment, so a deployment may own any number of the listed containers.
BatchDeps == 1..2

InitBatch ==
    /\ containers \in [Ids -> [dep : BatchDeps, status : {"created", "running", "exited"}]]
    /\ dirs = [d \in Ids |-> IF GetDeploymentContainers(containers, d) # {}
                             THEN [exists |-> TRUE, files |-> {"flow.py", "agents.yaml"}]
                             ELSE NoDir]
    /\ nextId = NumIds + 1
    /\ cache = [c \in Ids |-> NoEntry]
    /\ now = 0
    /\ last = [op |-> "init", id |-> 0, res |-> "ok"]
    /\ IdleServices

NextBatch ==
    \/ \E d \in BatchDeps : \E F \in SUBSET GetDeploymentContainers(containers, d) :
          StopAll(d, FALSE, F)
    \/ \E d \in BatchDeps : StopAll(d, TRUE, {})
    \/ \E d \in BatchDeps : \E F \in SUBSET GetDeploymentContainers(containers, d) :
          RemoveDeployment(d, FALSE, F)
    \/ \E d \in BatchDeps : RemoveDeployment(d, TRUE, {})
    \/ \E c \in Ids, f \in BOOLEAN : Start(c, f)

SpecBatch == InitBatch /\ [][NextBatch]_vars

\* -------------------------------------------------------- ResourceMonitor
\* _get_from_cache: the entry is served while utcnow() - cached-at < _cache_ttl.
GetFromCache(ch, id, t) == ch[id].has /\ t - ch[id].at < cache_ttl

\* _add_to_cache: the entry is stamped with its own utcnow() read.
AddToCache(ch, id, ts, t) == [ch EXCEPT ![id] = [has |-> TRUE, ts |-> ts, at |-> t]]

\* clear_cache: one id, or (id 0 standing for None) every id.
ClearCacheOf(ch, id) ==
    IF id = 0 THEN [c \in Ids |-> NoEntry] ELSE [ch EXCEPT ![id] = NoEntry]

Failure(kind) == [kind |-> kind, ts |-> 0]

\* container.attrs["Created"]: the engine writes creation times in RFC 3339
\* form, in UTC with a trailing "Z".
EngineCreated == [t |-> 0, zulu |-> TRUE]

\* datetime.fromisoformat(s.replace("Z", "+00:00")): the "Z" becomes an
\* offset, so the datetime of such a string is offset-aware.
FromIsoFormat(s) == [t |-> s.t, aware |-> s.zulu]

\* datetime.utcnow(): an offset-naive datetime.
UtcNow(t) == [t |-> t, aware |-> FALSE]

\* a - b on datetimes: TypeError between an aware and a naive one.
Subtract(a, b) ==
    IF a.aware = b.aware THEN [kind |-> "ok", secs |-> a.t - b.t]
    ELSE [kind |-> "TypeError", secs |-> 0]

\* Variant: the creation time read as a naive datetime, so the subtraction
\* succeeds.
Uptime_Naive(t) == Subtract(UtcNow(t), UtcNow(EngineCreated.t))

\* get_metrics, uptime: utcnow() minus the parsed creation time.
Uptime(t) == Subtract(UtcNow(t), FromIsoFormat(EngineCreated))

\* get_metrics at clock reading t: a cache hit, or NotFound for a missing
\* container, or the engine's stats error, or the error of the uptime
\* computation, or a fresh snapshot stamped t and cached at the next clock
\* reading t + d.
GetMetricsAt(ch, cs, id, t, d, fault) ==
    IF GetFromCache(ch, id, t)
    THEN [cache |-> ch, res |-> [kind |-> "ok", ts |-> ch[id].ts],
          hit |-> TRUE, fetched |-> FALSE, now |-> t]
    ELSE IF ~Exists(cs, id)
    THEN [cache |-> ch, res |-> Failure("NotFound"),
          hit |-> FALSE, fetched |-> FALSE, now |-> t]
    ELSE IF fault
    THEN [cache |-> ch, res |-> Failure("APIError"),
          hit |-> FALSE, fetched |-> TRUE, now |-> t]
    ELSE IF Uptime(t).kind # "ok"
    THEN [cache |-> ch, res |-> Failure(Uptime(t).kind),
          hit |-> FALSE, fetched |-> TRUE, now |-> t]
    ELSE [cache |-> AddToCache(ch, id, t, t + d), res |-> [kind |-> "ok", ts |-> t],
          hit |-> FALSE, fetched |-> TRUE, now |-> t + d]

\* Mutant: a failure is passed on as if it were a snapshot.
GetMetricsSafe_Any(r) == [kind |-> "ok", ts |-> r.ts]

\* _get_metrics_safe: any exception becomes None (here: kind "none").
GetMetricsSafe(r) == IF r.kind = "ok" THEN r ELSE Failure("none")

\* get_metrics_batch: one _get_metrics_safe per listed id, run back to back;
\* an id enters the map only when its result is a snapshot.
RECURSIVE BatchLoop(_, _, _, _, _)
BatchLoop(ch, cs, ids, t, F) ==
    IF ids = <<>>
    THEN [cache |-> ch, keys |-> {}, okIds |-> {}, fetchedIds |-> {}]
    ELSE LET id == Head(ids)
             m == GetMetricsAt(ch, cs, id, t, 0, id \in F)
             rest == BatchLoop(m.cache, cs, Tail(ids), t, F)
         IN [cache |-> rest.cache,
             keys |-> rest.keys \cup (IF GetMetricsSafe(m.res).kind = "ok" THEN {id} ELSE {}),
             okIds |-> rest.okIds \cup (IF m.res.kind = "ok" THEN {id} ELSE {}),
             fetchedIds |-> rest.fetchedIds \cup (IF m.fetched THEN {id} ELSE {})]

\* GET /api/containers/{id}/metrics  (ResourceMonitor.get_metrics)
GetMetrics(id, d, fault) ==
    /\ now + d <= MaxTime
    /\ LET m == GetMetricsAt(cache, containers, id, now, d, fault)
       IN /\ cache' = m.cache
          /\ now' = m.now
          /\ last' = [op |-> "getMetrics", id |-> id, res |-> m.res, hit |-> m.hit,
                      fetched |-> m.fetched, t0 |-> now]
    /\ UNCHANGED <<svcVars, containers, dirs, nextId>>

\* Variant: every exception is answered as a plain 500.
HandlerError_Plain(kind) == "GET_CONTAINER_FAILED"

\* get_container, except Exception: ContainerNotFoundError when the text of
\* the exception holds "not found" (the NotFound of get_metrics), else 500.
HandlerError(kind) ==
    IF kind = "NotFound" THEN "ContainerNotFoundError" ELSE "GET_CONTAINER_FAILED"

\* GET /api/containers/{id}: the lookup answers None for a missing container,
\* get_metrics runs next, and only then is the container object used; the
\* handler answers ContainerNotFoundError when the exception text holds
\* "not found", else a plain 500.
GetContainer(id, d, fault) ==
    /\ now + d <= MaxTime
    /\ LET m == GetMetricsAt(cache, containers, id, now, d, fault)
           res == IF m.res.kind # "ok" THEN HandlerError(m.res.kind)
                  ELSE IF ~Exists(containers, id) THEN HandlerError("AttributeError")
                  ELSE "ok"
       IN /\ cache' = m.cache
          /\ now' = m.now
          /\ last' = [op |-> "getContainer", id |-> id, res |-> res,
                      missing |-> ~Exists(containers, id)]
    /\ UNCHANGED <<svcVars, containers, dirs, nextId>>

\* ResourceMonitor.get_metrics_batch
GetMetricsBatch(ids, F) ==
    LET b == BatchLoop(cache, containers, ids, now, F)
    IN /\ cache' = b.cache
       /\ last' = [op |-> "getMetricsBatch", id |-> 0, res |-> "ok",
                   ids |-> {ids[i] : i \in DOMAIN ids},
                   keys |-> b.keys, okIds |-> b.okIds, faults |-> F, t0 |-> now]
       /\ UNCHANGED <<svcVars, containers, dirs, nextId, now>>

\* ResourceMonitor.clear_cache
ClearCache(id) ==
    /\ cache' = ClearCacheOf(cache, id)
    /\ last' = [op |-> "clearCache", id |-> id, res |-> "ok"]
    /\ UNCHANGED <<svcVars, containers, dirs, nextId, now>>

\* The passage of time.
Tick ==
    /\ now < MaxTime
    /\ now' = now + 1
    /\ UNCHANGED <<svcVars, containers, dirs, nextId, cache, last>>

\* ------------------------------------------- monitoring a running fleet
InitMon ==
    /\ containers = [c \in Ids |-> IF c \in MIds THEN [dep |-> c, status |-> "running"]
                                   ELSE NoContainer]
    /\ dirs = [d \in Ids |-> IF d \in MIds
                             THEN [exists |-> TRUE, files |-> {"flow.py", "agents.yaml"}]
                             ELSE NoDir]
    /\ nextId = NumIds + 1
    /\ cache = [c \in Ids |-> NoEntry]
    /\ now = 0
    /\ last = [op |-> "init", id |-> 0, res |-> "ok"]
    /\ IdleServices

NextMon ==
    \/ \E id \in MIds, d \in 0..MaxDrift, f \in BOOLEAN : GetMetrics(id, d, f)
    \/ \E id \in MIds, d \in 0..MaxDrift, f \in BOOLEAN : GetContainer(id, d, f)
    \/ \E id \in MIds \cup {0} : ClearCache(id)
    \/ \E c \in MIds, f \in BOOLEAN : Remove(c, TRUE, f)
    \/ \E d \in MIds : \E F \in SUBSET GetDeploymentContainers(containers, d) :
          RemoveDeployment(d, FALSE, F)
    \/ Tick

SpecMon == InitMon /\ [][NextMon]_vars

\* ------------------------------------------------ batches of metric queries
\* The batch is a function of the cache, the engine and its inputs: it is
\* applied in every combination of a batch id being a running container or a
\* removed one.
BatchInputs == UNION {[1..n -> BIds] : n \in 0..MaxBatch}

InitMonBatch ==
    /\ containers \in [Ids -> {NoContainer} \cup [dep : Ids, status : {"running"}]]
    /\ \A c \in Ids : /\ Exists(containers, c) => containers[c].dep = c
                      /\ c \notin BIds => ~Exists(containers, c)
    /\ dirs = [d \in Ids |-> IF Exists(containers, d)
                             THEN [exists |-> TRUE, files |-> {"flow.py", "agents.yaml"}]
                             ELSE NoDir]
    /\ nextId = NumIds + 1
    /\ cache = [c \in Ids |-> NoEntry]
    /\ now = cache_ttl
    /\ last = [op |-> "init", id |-> 0, res |-> "ok"]
    /\ IdleServices

NextMonBatch ==
    \/ \E ids \in BatchInputs : \E F \in SUBSET {ids[i] : i \in DOMAIN ids} :
          GetMetricsBatch(ids, F)
    \/ \E c \in BIds : Remove(c, TRUE, FALSE)

SpecMonBatch == InitMonBatch /\ [][NextMonBatch]_vars

\* ------------------------------------------------------------ log streams
\* One container is watched.  The engine appends lines to its log; a line
\* carries the engine's timestamp and a message that may be empty.
\* container.logs(stream=True, follow=True) is a blocking iterator: while a
\* stream generator waits in it for the next line, the event loop runs
\* nothing else of this process.

\* _parse_log_line on a line of the live stream.  stream_logs strips the
\* line first, so a line with an empty message is the bare timestamp, does
\* not split in two and is stamped with the clock of the parse.
StreamEntryTs(line, t) == IF line.blank THEN t ELSE line.ts

\* The open engine log handle of a session: from the start of the generator
\* to its end or its finalization.
HandleOpen(st) == st.pc \in {"yield", "blocked", "cancelled"}
Blocked == \E s \in Streams : streams[s].pc = "blocked"

\* One iteration of `for line in log_generator`: wait for the next line,
\* leave the loop (and run the finally) when the key is gone, else yield
\* the parsed entry.
Pull(st, reg, t) ==
    IF st.pos >= Len(emitted)
    THEN [st |-> [st EXCEPT !.pc = "blocked"], reg |-> reg]
    ELSE IF ~reg
    THEN [st |-> [st EXCEPT !.pc = "done", !.pos = st.pos + 1], reg |-> FALSE]
    ELSE [st |-> [st EXCEPT !.pc = "yield", !.pos = st.pos + 1,
                            !.lastTs = StreamEntryTs(emitted[st.pos + 1], t)],
          reg |-> reg]

\* The engine: the container writes a line.
EmitLine(blank) ==
    /\ Len(emitted) < MaxLines
    /\ emitted' = Append(emitted, [ts |-> now, blank |-> blank])
    /\ UNCHANGED <<containers, dirs, nextId, cache, now, last,
                   registry, streams, events, added, pruned, restarts, deploying>>

LogTick ==
    /\ now < LogTime
    /\ now' = now + 1
    /\ UNCHANGED <<containers, dirs, nextId, cache, last, svcVars>>

\* stream_container_logs up to create_task: the socket is accepted and the
\* streaming task is created.
Connect(s) ==
    /\ ~Blocked
    /\ streams[s].pc = "idle"
    /\ streams' = [streams EXCEPT ![s] = [@ EXCEPT !.pc = "task", !.conn = "open"]]
    /\ UNCHANGED <<containers, dirs, nextId, cache, now, last,
                   emitted, registry, events, added, pruned, restarts, deploying>>

\* _log_stream_handler, first part: the last `tail` lines of the log are
\* fetched and sent.  These lines are parsed unstripped, so each keeps the
\* engine's timestamp.
SendHistory(s, tail) ==
    /\ ~Blocked
    /\ streams[s].pc = "task"
    /\ streams' = [streams EXCEPT ![s] =
                     [@ EXCEPT !.pc = "sent",
                               !.lastTs = IF tail > 0 /\ Len(emitted) > 0
                                          THEN emitted[Len(emitted)].ts ELSE @]]
    /\ UNCHANGED <<containers, dirs, nextId, cache, now, last,
                   emitted, registry, events, added, pruned, restarts, deploying>>

\* stream_logs up to its first line: the key is registered, the log is
\* opened with tail=None (the engine client reads that as "all") and
\* follow=True, and the first iteration runs.
StartStream(s) ==
    /\ ~Blocked
    /\ streams[s].pc = "sent"
    /\ LET r == Pull(streams[s], TRUE, now)
       IN /\ streams' = [streams EXCEPT ![s] = r.st]
          /\ registry' = r.reg
    /\ UNCHANGED <<containers, dirs, nextId, cache, now, last,
                   emitted, events, added, pruned, restarts, deploying>>

\* The consumer took the entry; the generator goes round its loop.
Resume(s) ==
    /\ ~Blocked
    /\ streams[s].pc = "yield"
    /\ LET r == Pull(streams[s], registry, now)
       IN /\ streams' = [streams EXCEPT ![s] = r.st]
          /\ registry' = r.reg
    /\ UNCHANGED <<containers, dirs, nextId, cache, now, last,
                   emitted, events, added, pruned, restarts, deploying>>

\* The line the blocked generator waited for has arrived.
Unblock(s) ==
    /\ streams[s].pc = "blocked"
    /\ streams[s].pos < Len(emitted)
    /\ LET r == Pull(streams[s], registry, now)
       IN /\ streams' = [streams EXCEPT ![s] = r.st]
          /\ registry' = r.reg
    /\ UNCHANGED <<containers, dirs, nextId, cache, now, last,
                   emitted, events, added, pruned, restarts, deploying>>

\* LogStreamer.stop_stream
StopStream ==
    /\ ~Blocked
    /\ registry' = FALSE
    /\ streams' = [s \in Streams |->
                     IF HandleOpen(streams[s])
                     THEN [streams[s] EXCEPT !.stopped = TRUE] ELSE streams[s]]
    /\ UNCHANGED <<containers, dirs, nextId, cache, now, last,
                   emitted, events, added, pruned, restarts, deploying>>

\* The consumer goes away (or sends "close").
Disconnect(s) ==
    /\ streams[s].conn = "open"
    /\ streams' = [streams EXCEPT ![s] = [@ EXCEPT !.conn = "closed"]]
    /\ UNCHANGED <<containers, dirs, nextId, cache, now, last,
                   emitted, registry, events, added, pruned, restarts, deploying>>

\* stream_container_logs after the receive loop: the task is cancelled and
\* awaited.  A task that never ran or has not reached the generator ends
\* there; a task inside `async for` is cancelled at its send, which leaves the
\* generator suspended at its yield.
HandleDisconnect(s) ==
    /\ ~Blocked
    /\ streams[s].conn = "closed"
    /\ streams' = [streams EXCEPT ![s] =
                     [@ EXCEPT !.conn = "gone",
                               !.pc = IF @ = "yield" THEN "cancelled" ELSE "done"]]
    /\ UNCHANGED <<containers, dirs, nextId, cache, now, last,
                   emitted, registry, events, added, pruned, restarts, deploying>>

\* The abandoned generator is finalized by the event loop: its finally pops
\* the key and the engine log handle goes with it.
Finalize(s) ==
    /\ ~Blocked
    /\ streams[s].pc = "cancelled"
    /\ streams' = [streams EXCEPT ![s] = [@ EXCEPT !.pc = "done"]]
    /\ registry' = FALSE
    /\ UNCHANGED <<containers, dirs, nextId, cache, now, last,
                   emitted, events, added, pruned, restarts, deploying>>

InitLog ==
    /\ containers = [c \in Ids |-> IF c = 1 THEN [dep |-> 1, status |-> "running"]
                                   ELSE NoContainer]
    /\ dirs = [d \in Ids |-> IF d = 1
                             THEN [exists |-> TRUE, files |-> {"flow.py", "agents.yaml"}]
                             ELSE NoDir]
    /\ nextId = NumIds + 1
    /\ cache = [c \in Ids |-> NoEntry]
    /\ now = 0
    /\ last = [op |-> "init", id |-> 0, res |-> "ok"]
    /\ IdleServices

StreamStep(s) == StartStream(s) \/ Resume(s) \/ Unblock(s)

NextLog ==
    \/ \E b \in BOOLEAN : EmitLine(b)
    \/ LogTick
    \/ \E s \in Streams : Connect(s)
    \/ \E s \in Streams, tail \in 0..MaxTail : SendHistory(s, tail)
    \/ \E s \in Streams : StartStream(s)
    \/ \E s \in Streams : Resume(s)
    \/ \E s \in Streams : Unblock(s)
    \/ StopStream
    \/ \E s \in Streams : Disconnect(s)
    \/ \E s \in Streams : HandleDisconnect(s)
    \/ \E s \in Streams : Finalize(s)

SpecLog == InitLog /\ [][NextLog]_vars

\* The event loop runs every callback that is ready; the engine and the
\* consumers owe nothing.
FairLog ==
    /\ \A s \in Streams : WF_vars(SendHistory(s, 0))
    /\ \A s \in Streams : WF_vars(StreamStep(s))
    /\ \A s \in Streams : WF_vars(HandleDisconnect(s))
    /\ \A s \in Streams : WF_vars(Finalize(s))

SpecLogFair == InitLog /\ [][NextLog]_vars /\ FairLog

\* -------------------------------------------------------- analytics store
\* Every method body of AnalyticsStore runs under the asyncio lock and has no
\* suspension point inside it, so the lock is free whenever a coroutine
\* starts and each call is one step.
EventTypes == {"api_call", "deployment"}

\* Variant: a full store turns the new event away.
DequeAppend_DropNew(q, ev) ==
    IF Len(q) >= max_events THEN q ELSE Append(q, ev)

\* deque(maxlen=max_events).append: a full deque drops its oldest element.
DequeAppend(q, ev) ==
    IF Len(q) >= max_events THEN Append(Tail(q), ev) ELSE Append(q, ev)

\* The events of q created at or after the cutoff, in order.
RECURSIVE KeepSince(_, _)
KeepSince(q, cutoff) ==
    IF q = <<>> THEN <<>>
    ELSE IF Head(q).at >= cutoff THEN <<Head(q)>> \o KeepSince(Tail(q), cutoff)
    ELSE KeepSince(Tail(q), cutoff)

\* AnalyticsStore.add_event
AddEvent(type) ==
    /\ added < MaxAdded
    /\ LET ev == [n |-> added + 1, type |-> type, at |-> now]
       IN /\ events' = DequeAppend(events, ev)
          /\ last' = [op |-> "addEvent", id |-> ev.n, res |-> "ok", ev |-> ev]
    /\ added' = added + 1
    /\ UNCHANGED <<containers, dirs, nextId, cache, now,
                   emitted, registry, streams, pruned, restarts, deploying>>

\* AnalyticsStore.clear_old_events; the clock of the store counts days.
ClearOldEvents(days) ==
    /\ LET kept == KeepSince(events, now - days)
       IN /\ events' = kept
          /\ pruned' = pruned + (Len(events) - Len(kept))
          /\ last' = [op |-> "clearOldEvents", id |-> days, res |-> "ok",
                      count |-> Len(events) - Len(kept)]
    /\ UNCHANGED <<containers, dirs, nextId, cache, now,
                   emitted, registry, streams, added, restarts, deploying>>

\* q[-n:] of a list, n >= 0: a negative start counts from the end and is
\* clamped at the first element; -0 is 0, the start of the list.
SliceLast(q, n) ==
    LET start == IF n = 0 THEN 0
                 ELSE IF Len(q) - n < 0 THEN 0 ELSE Len(q) - n
    IN SubSeq(q, start + 1, Len(q))

\* AnalyticsStore.get_recent_events
GetRecentEvents(limit) ==
    /\ LET all == events
           out == IF limit < Len(all) THEN SliceLast(all, limit) ELSE all
       IN last' = [op |-> "getRecentEvents", id |-> limit, res |-> "ok",
                   out |-> out, before |-> events]
    /\ UNCHANGED <<containers, dirs, nextId, cache, now,
                   emitted, registry, streams, events, added, pruned, restarts, deploying>>

NextStore ==
    \/ \E type \in EventTypes : AddEvent(type)
    \/ \E days \in 0..MaxDays : ClearOldEvents(days)
    \/ \E limit \in 0..(max_events + 1) : GetRecentEvents(limit)
    \/ Tick

SpecStore == Init /\ [][NextStore]_vars

\* ------------------------------------------------------- one stats sample
\* n / d rounded to the nearest integer, a tie going to the even one
\* (round() of Python); d is positive.
RoundDiv(n, d) ==
    LET q == n \div d
        r == n - q * d
    IN IF 2 * r < d THEN q
       ELSE IF 2 * r > d THEN q + 1
       ELSE IF q % 2 = 0 THEN q ELSE q + 1

\* get_container_stats: cpu_percent of one sample, rounded to two decimals
\* and counted here in hundredths of a percent.
CpuPercent(cpu, precpu, sys, presys) ==
    IF sys - presys > 0
    THEN RoundDiv((cpu - precpu) * 10000, sys - presys) ELSE 0

Counters == 0..MaxCounter

InitStats ==
    /\ containers = [c \in Ids |-> NoContainer]
    /\ dirs = [d \in Ids |-> NoDir]
    /\ nextId = 1
    /\ cache = [c \in Ids |-> NoEntry]
    /\ now = 0
    /\ last \in [op : {"sample"}, id : {1}, res : {"pending"},
                 cpu : Counters, precpu : Counters, sys : Counters, presys : Counters]
    /\ IdleServices

\* DockerService.get_container_stats on the sample the engine returned.
GetContainerStats ==
    /\ last.op = "sample"
    /\ last' = [last EXCEPT !.op = "stats", !.res = "ok"] @@
               [cpu_percent |-> CpuPercent(last.cpu, last.precpu, last.sys, last.presys)]
    /\ UNCHANGED <<containers, dirs, nextId, cache, now, svcVars>>

NextStats == GetContainerStats

SpecStats == InitStats /\ [][NextStats]_vars

\* ------------------------------------------------------------ rate metrics
\* The engine's cumulative rx counter of a container at time t; it restarts
\* from 0 at ResetAt.  A snapshot stamped t carries RxAt(t).
RxAt(t) == IF t < ResetAt THEN 5 + 2 * t ELSE 2 * (t - ResetAt)

\* get_rate_metrics, first sample: a plain get_metrics.
FirstSample(ch, cs, id, t) == GetMetricsAt(ch, cs, id, t, 0, FALSE)

\* get_rate_metrics, second sample: clear_cache(id), then get_metrics.
SecondSample(ch, cs, id, t, fault) ==
    GetMetricsAt(ClearCacheOf(ch, id), cs, id, t, 0, fault)

\* ResourceMonitor.get_rate_metrics: a sample, a sleep of interval seconds,
\* a second sample; a rate is (second - first) / interval clamped at 0, and
\* rx_delta is its numerator after the clamp.  An exception of either sample
\* ends the call.
GetRateMetrics(id, interval, fault) ==
    /\ now + interval <= MaxTime
    /\ LET m1 == FirstSample(cache, containers, id, now)
           m2 == SecondSample(m1.cache, containers, id, now + interval, fault)
           delta == RxAt(m2.res.ts) - RxAt(m1.res.ts)
       IN IF m1.res.kind # "ok"
          THEN /\ cache' = m1.cache
               /\ now' = now
               /\ last' = [op |-> "getRateMetrics", id |-> id, res |-> m1.res.kind,
                           running |-> Exists(containers, id), t0 |-> now]
          ELSE /\ cache' = m2.cache
               /\ now' = now + interval
               /\ last' = IF m2.res.kind # "ok"
                          THEN [op |-> "getRateMetrics", id |-> id, res |-> m2.res.kind,
                                running |-> Exists(containers, id), t0 |-> now]
                          ELSE [op |-> "getRateMetrics", id |-> id, res |-> "ok",
                                running |-> Exists(containers, id), t0 |-> now,
                                fetched1 |-> m1.fetched, fetched2 |-> m2.fetched,
                                ts1 |-> m1.res.ts, ts2 |-> m2.res.ts,
                                interval |-> interval,
                                rx_delta |-> IF delta > 0 THEN delta ELSE 0]
    /\ UNCHANGED <<svcVars, containers, dirs, nextId>>

NextRate ==
    \/ \E id \in MIds, f \in BOOLEAN : GetMetrics(id, 0, f)
    \/ \E id \in MIds, i \in 1..MaxInterval, f \in BOOLEAN : GetRateMetrics(id, i, f)
    \/ \E c \in MIds : Remove(c, TRUE, FALSE)
    \/ Tick

SpecRate == InitMon /\ [][NextRate]_vars

\* ------------------------------------------------------ high-usage alerts
\* What the engine's stats say of a container: cpu_percent, and memory
\* usage and limit in MB (the limit is 0 when the stats name none).
UsageStats == {[cpu |-> c, usage |-> m[1], limit |-> m[2]] :
                  c \in {50, 81}, m \in {<<1, 2>>, <<2, 2>>, <<1, 0>>}}

\* detect_high_usage, the issues of one container: memory_percent is
\* usage / limit * 100, and each percentage is compared with its threshold.
Issues(st, cpuT, memT) ==
    (IF st.cpu > cpuT THEN {"CPU"} ELSE {})
        \cup (IF st.usage * 100 > memT * st.limit THEN {"Memory"} ELSE {})

\* ResourceMonitor.detect_high_usage: list the fleet, keep the running
\* containers, get_metrics_batch of them, then one pass over the returned
\* map; the division by memory_limit_mb raises when the limit is 0.
DetectHighUsage(cpuT, memT) ==
    LET stats == last.stats
        F == last.faults
        running == {c \in ListContainers(containers) : containers[c].status = "running"}
        b == BatchLoop(cache, containers, SetToSeq(running), now, F)
        scanned == {c \in b.keys : Exists(containers, c)}
        alerting == {c \in scanned : Issues(stats[c], cpuT, memT) # {}}
    IN /\ last.op = "fleet"
       /\ cache' = b.cache
       /\ last' = [op |-> "detectHighUsage", id |-> 0,
                   res |-> IF \E c \in scanned : stats[c].limit = 0
                           THEN "ZeroDivisionError" ELSE "ok",
                   alerts |-> IF \E c \in scanned : stats[c].limit = 0
                              THEN <<>>
                              ELSE [c \in alerting |-> Issues(stats[c], cpuT, memT)],
                   stats |-> stats, cpuT |-> cpuT, memT |-> memT,
                   running |-> running, faults |-> F]
       /\ UNCHANGED <<svcVars, containers, dirs, nextId, now>>

\* A fleet of running and stopped containers, the stats the engine holds of
\* the running ones and the set of those whose stats call fails.
InitAlerts ==
    /\ containers \in [Ids -> {NoContainer} \cup [dep : Ids, status : {"running", "exited"}]]
    /\ \A c \in Ids : /\ Exists(containers, c) => containers[c].dep = c
                      /\ c \notin BIds => ~Exists(containers, c)
    /\ dirs = [d \in Ids |-> IF Exists(containers, d)
                             THEN [exists |-> TRUE, files |-> {"flow.py", "agents.yaml"}]
                             ELSE NoDir]
    /\ nextId = NumIds + 1
    /\ cache = [c \in Ids |-> NoEntry]
    /\ now = 0
    /\ \E R \in SUBSET BIds :
          /\ R = {c \in BIds : containers[c].status = "running"}
          /\ last \in [op : {"fleet"}, id : {0}, res : {"pending"},
                       stats : [R -> UsageStats], faults : SUBSET R]
    /\ IdleServices

NextAlerts == DetectHighUsage(80, 90)

SpecAlerts == InitAlerts /\ [][NextAlerts]_vars

\* ---------------------------------------------------- request validation
\* Strings are sequences of characters; "LF" is the newline character.
Chars == {"2", "m", "G", "A", "LF"}
Strs == UNION {[1..n -> Chars] : n \in 0..MaxStr}

IsDigit(c) == c = "2"
IsUnit(c) == c \in {"m", "G"}
IsNameStart(c) == c \in {"m", "G", "A"}
IsNameChar(c) == c \in {"m", "G", "A", "2"}

\* The "$" of a pattern after n matched characters: the end of the string,
\* or just before a newline that ends the string.
AtDollar(s, n) == n = Len(s) \/ (n = Len(s) - 1 /\ s[Len(s)] = "LF")

\* re.match(r"^\d+[mgMG]$", v)
ValidateMemoryLimit(v) ==
    \E n \in 2..Len(v) :
        /\ \A i \in 1..(n - 1) : IsDigit(v[i])
        /\ IsUnit(v[n])
        /\ AtDollar(v, n)

\* re.compile(r"^[A-Za-z_][A-Za-z0-9_]*$").match(key)
ValidKey(key) ==
    \E n \in 1..Len(key) :
        /\ IsNameStart(key[1])
        /\ \A i \in 2..n : IsNameChar(key[i])
        /\ AtDollar(key, n)

\* POST /api/deploy with a request body: the request model is validated
\* before the handler runs; a rejected body never reaches the handler.
DeployRequest(autoStart, listFault, createFault, startFault) ==
    /\ last.op = "request"
    /\ IF ValidateMemoryLimit(last.memory_limit) /\ ValidKey(last.key)
       THEN Deploy(autoStart, listFault, createFault, startFault)
       ELSE /\ last' = [op |-> "deploy", id |-> 0, res |-> "ValidationError"]
            /\ UNCHANGED <<svcVars, containers, dirs, nextId, cache, now>>

\* An empty engine and a request with any memory_limit and any name for its
\* one environment variable.
InitValidate ==
    /\ containers = [c \in Ids |-> NoContainer]
    /\ dirs = [d \in Ids |-> NoDir]
    /\ nextId = 1
    /\ cache = [c \in Ids |-> NoEntry]
    /\ now = 0
    /\ last \in [op : {"request"}, id : {0}, res : {"pending"},
                 memory_limit : Strs, key : Strs]
    /\ IdleServices

NextValidate ==
    \E a \in BOOLEAN, lf \in BOOLEAN, cf \in {"none", "APIError", "EngineError"},
       sf \in BOOLEAN : DeployRequest(a, lf, cf, sf)

SpecValidate == InitValidate /\ [][NextValidate]_vars

\* ------------------------------------------------------ the create call
\* cpu_limit is a float between 0.1 and 4.0; it is modelled in hundredths of
\* a core.
cpu_limit_ge == 10
cpu_limit_le == 400
CpuLimits == cpu_limit_ge..cpu_limit_le

\* The hundredths h for which the double product (h / 100) * 100000 lies
\* just below the integer h * 1000 (0.29 * 100000 is 28999.999999999996).
ProductBelow == {29, 57, 58, 113, 114, 115, 116, 201, 203, 205, 207,
                 226, 228, 230, 232, 251, 253, 255, 257}

\* int(cpu_limit * 100000): the double product, truncated toward zero.
CpuQuota(h) == IF h \in ProductBelow THEN h * 1000 - 1 ELSE h * 1000

\* str.lower() on the characters of Chars.
LowerChar(c) == IF c = "G" THEN "g" ELSE IF c = "A" THEN "a" ELSE c
Lower(v) == [i \in DOMAIN v |-> LowerChar(v[i])]

\* The keyword arguments of client.containers.create.
CreateArgs(cpu, mem) ==
    [cpu_period |-> 100000, cpu_quota |-> CpuQuota(cpu), mem_limit |-> mem]

\* POST /api/deploy for a request with resource limits, engine calls
\* succeeding: the validator hands the handler the lower-cased memory_limit,
\* and deploy_agent passes the limits to the create call.
DeployWithLimits(autoStart) ==
    /\ last.op = "request"
    /\ nextId <= NumIds
    /\ IF ~ValidateMemoryLimit(last.memory_limit)
       THEN /\ last' = [op |-> "deploy", id |-> 0, res |-> "ValidationError"]
            /\ UNCHANGED <<containers, dirs, nextId>>
       ELSE LET d == nextId
                r == DeployAgent(containers, dirs, d, d, "none")
                st == IF autoStart THEN StartContainer(r.containers, d, FALSE)
                      ELSE [containers |-> r.containers, res |-> "ok"]
            IN /\ containers' = st.containers
               /\ dirs' = r.dirs
               /\ nextId' = nextId + 1
               /\ last' = [op |-> "deploy", id |-> d, res |-> "ok",
                           create |-> CreateArgs(last.cpu_limit, Lower(last.memory_limit))]
    /\ UNCHANGED <<svcVars, cache, now>>

InitCreate ==
    /\ containers = [c \in Ids |-> NoContainer]
    /\ dirs = [d \in Ids |-> NoDir]
    /\ nextId = 1
    /\ cache = [c \in Ids |-> NoEntry]
    /\ now = 0
    /\ last \in [op : {"request"}, id : {0}, res : {"pending"},
                 memory_limit : Strs, cpu_limit : CpuLimits]
    /\ IdleServices

NextCreate == \E a \in BOOLEAN : DeployWithLimits(a)

SpecCreate == InitCreate /\ [][NextCreate]_vars

\* ------------------------------------------------------------ log parser
\* A message is a sequence of tokens: a word, bare or written "[word]" or
\* "word:".  Level words are held in upper case and source words in lower
\* case, as the detectors see them after upper() and lower().
LevelWords == {"CRITICAL", "FATAL", "ERROR", "WARNING", "WARN", "DEBUG", "TRACE", "INFO"}
SourceWords == {"flow", "flow.py", "agent", "http", "request", "task"}
Tokens == [word : LevelWords \cup SourceWords \cup {"hello"},
           mark : {"none", "bracket", "colon"}]
Messages == UNION {[1..n -> Tokens] : n \in 0..MaxWords}

\* A raw line is a JSON object with optional "level", "severity", "source"
\* and "logger" members, or text with or without the engine's timestamp.
JsonLevels == {"absent", "INFO", "info", "notice"}
JsonSources == {"absent", "agent", "worker"}
Lines == [kind : {"json"}, level : JsonLevels, severity : JsonLevels,
          source : JsonSources, logger : JsonSources]
            \cup [kind : {"plain"}, stamped : BOOLEAN, words : Messages]

Marked(m, w) == \E i \in DOMAIN m : m[i].word = w /\ m[i].mark \in {"bracket", "colon"}

\* _detect_log_level
DetectLogLevel(m) ==
    IF Marked(m, "CRITICAL") THEN "CRITICAL"
    ELSE IF Marked(m, "FATAL") THEN "CRITICAL"
    ELSE IF Marked(m, "ERROR") THEN "ERROR"
    ELSE IF Marked(m, "WARNING") THEN "WARNING"
    ELSE IF Marked(m, "WARN") THEN "WARNING"
    ELSE IF Marked(m, "DEBUG") THEN "DEBUG"
    ELSE IF Marked(m, "TRACE") THEN "TRACE"
    ELSE IF /\ m # <<>>
            /\ m[1].mark # "bracket"
            /\ m[1].word \in {"CRITICAL", "ERROR", "WARNING", "WARN", "DEBUG", "INFO"}
    THEN (IF m[1].word = "WARN" THEN "WARNING" ELSE m[1].word)
    ELSE "INFO"

\* _detect_source
DetectSource(m) ==
    IF \E i \in DOMAIN m : \/ m[i].word = "flow" /\ m[i].mark = "bracket"
                           \/ m[i].word = "flow.py"
    THEN "flow"
    ELSE IF Marked(m, "agent") THEN "agent"
    ELSE IF \E i \in DOMAIN m : \/ m[i].word = "http" /\ m[i].mark = "bracket"
                                \/ m[i].word = "request" /\ m[i].mark = "colon"
    THEN "http"
    ELSE IF Marked(m, "task") THEN "task"
    ELSE "container"

\* line.split(" ", 1): with two parts or more the first is taken for the
\* timestamp and the rest is the message; otherwise the line is the message.
MessageOf(line) ==
    LET parts == IF line.stamped
                 THEN <<[word |-> "hello", mark |-> "none"]>> \o line.words
                 ELSE line.words
    IN IF Len(parts) >= 2 THEN Tail(parts) ELSE parts

\* dict.get(key, default) over two members.
JsonGet(first, second, default) ==
    IF first # "absent" THEN first ELSE IF second # "absent" THEN second ELSE default

\* The timestamp of an entry: the engine's, as written or with the part
\* after the "." cut off, or the parser's own utcnow(), or a JSON member.
EngineStamp == [from |-> "engine", fraction |-> TRUE]
StripFraction(ts) == [ts EXCEPT !.fraction = FALSE]
TimestampOf(line) ==
    IF line.stamped /\ Len(line.words) >= 1 THEN StripFraction(EngineStamp)
    ELSE IF Len(line.words) >= 2 THEN [from |-> "word", fraction |-> FALSE]
    ELSE [from |-> "utcnow", fraction |-> TRUE]

\* _parse_log_line: a JSON object is returned member by member; any other
\* line goes through the detectors.
ParseLine(line) ==
    IF line.kind = "json"
    THEN [level |-> JsonGet(line.level, line.severity, "INFO"),
          source |-> JsonGet(line.source, line.logger, "container"),
          message |-> <<>>,
          timestamp |-> [from |-> "member", fraction |-> FALSE]]
    ELSE [level |-> DetectLogLevel(MessageOf(line)),
          source |-> DetectSource(MessageOf(line)),
          message |-> MessageOf(line),
          timestamp |-> TimestampOf(line)]

ParseLogLine ==
    /\ last.op = "line"
    /\ last' = [op |-> "parseLogLine", id |-> 0, res |-> "ok",
                line |-> last.line, entry |-> ParseLine(last.line)]
    /\ UNCHANGED <<svcVars, containers, dirs, nextId, cache, now>>

InitParse ==
    /\ containers = [c \in Ids |-> NoContainer]
    /\ dirs = [d \in Ids |-> NoDir]
    /\ nextId = 1
    /\ cache = [c \in Ids |-> NoEntry]
    /\ now = 0
    /\ last \in [op : {"line"}, id : {0}, res : {"pending"}, line : Lines]
    /\ IdleServices

NextParse == ParseLogLine

SpecParse == InitParse /\ [][NextParse]_vars

\* --------------------------------------------------------------- restart
\* ContainerManager.restart_container up to its pause: stop_container, whose
\* exception ends the call.
RestartStop(c, fault) ==
    /\ ~restarts[c]
    /\ LET r == StopContainer(containers, c, fault)
       IN /\ containers' = r.containers
          /\ restarts' = [restarts EXCEPT ![c] = (r.res = "ok")]
          /\ last' = IF r.res = "ok"
                     THEN [op |-> "restartStop", id |-> c, res |-> "ok"]
                     ELSE [op |-> "restart", id |-> c, res |-> r.res,
                           calls |-> <<"stop">>]
    /\ UNCHANGED <<dirs, nextId, cache, now,
                   emitted, registry, streams, events, added, pruned, deploying>>

\* restart_container after its pause: start_container.
RestartStart(c, fault) ==
    /\ restarts[c]
    /\ LET r == StartContainer(containers, c, fault)
       IN /\ containers' = r.containers
          /\ last' = [op |-> "restart", id |-> c, res |-> r.res,
                      calls |-> <<"stop", "start">>]
    /\ restarts' = [restarts EXCEPT ![c] = FALSE]
    /\ UNCHANGED <<dirs, nextId, cache, now,
                   emitted, registry, streams, events, added, pruned, deploying>>

NextRestart ==
    \/ \E c \in MIds, f \in BOOLEAN : Start(c, f)
    \/ \E c \in MIds, f \in BOOLEAN : Stop(c, f)
    \/ \E c \in MIds, f \in BOOLEAN : Remove(c, TRUE, f)
    \/ \E c \in MIds, f \in BOOLEAN : RestartStop(c, f)
    \/ \E c \in MIds, f \in BOOLEAN : RestartStart(c, f)

SpecRestart == InitBatch /\ [][NextRestart]_vars

\* ---------------------------------------------------------- health check
\* DockerService.ping: True when the daemon answers; the client's exception
\* is logged and raised again when it does not.
Ping(reachable) == IF reachable THEN [res |-> "ok", value |-> TRUE]
                   ELSE [res |-> "DockerException", value |-> FALSE]

\* get_health, the overall status of three connection flags.
OverallStatus(docker_ok, database_ok, redis_ok) ==
    IF docker_ok /\ database_ok /\ redis_ok THEN "healthy"
    ELSE IF docker_ok THEN "degraded"
    ELSE "unhealthy"

\* GET /health: ping, the database and Redis checks (each answers False when
\* its dependency fails), the status, and the fleet count when the listing
\* answers.
GetHealth ==
    /\ last.op = "probe"
    /\ LET p == Ping(last.docker)
       IN last' = IF p.res # "ok"
                  THEN [op |-> "getHealth", id |-> 0, res |-> p.res, probe |-> last]
                  ELSE [op |-> "getHealth", id |-> 0, res |-> "ok", probe |-> last,
                        status |-> OverallStatus(p.value, last.database, last.redis),
                        docker_connected |-> p.value,
                        database_connected |-> last.database,
                        redis_connected |-> last.redis,
                        container_count |-> IF last.listFault THEN 0
                                            ELSE Cardinality(ListContainers(containers))]
    /\ UNCHANGED <<svcVars, containers, dirs, nextId, cache, now>>

\* Any fleet, and any combination of the engine, the database and Redis
\* being reachable.
InitHealth ==
    /\ containers \in [Ids -> {NoContainer} \cup [dep : Ids, status : {"running", "exited"}]]
    /\ \A c \in Ids : Exists(containers, c) => containers[c].dep = c
    /\ dirs = [d \in Ids |-> IF Exists(containers, d)
                             THEN [exists |-> TRUE, files |-> {"flow.py", "agents.yaml"}]
                             ELSE NoDir]
    /\ nextId = NumIds + 1
    /\ cache = [c \in Ids |-> NoEntry]
    /\ now = 0
    /\ last \in [op : {"probe"}, id : {0}, res : {"pending"},
                 docker : BOOLEAN, database : BOOLEAN, redis : BOOLEAN,
                 listFault : BOOLEAN]
    /\ IdleServices

NextHealth == GetHealth

SpecHealth == InitHealth /\ [][NextHealth]_vars

\* ------------------------------------------------------ concurrent deploys
\* The deploy route up to its first suspension: the cap check on the listing
\* (skipped when the listing fails) and the new deployment id.  The handler
\* is next suspended in the file writes of deploy_agent, where other
\* handlers run.
DeployCheck(listFault) ==
    LET fleet == Cardinality(ListContainers(containers))
    IN IF ~listFault /\ OverLimit(fleet)
       THEN /\ last' = [op |-> "deploy", id |-> 0, res |-> "ResourceLimitError",
                        auto |-> FALSE, listFault |-> listFault,
                        createFault |-> "none", startFault |-> FALSE, fleet |-> fleet]
            /\ UNCHANGED <<svcVars, containers, dirs, nextId, cache, now>>
       ELSE /\ nextId <= NumIds
            /\ deploying' = deploying \cup {nextId}
            /\ nextId' = nextId + 1
            /\ last' = [op |-> "deployCheck", id |-> nextId, res |-> "ok",
                        listFault |-> listFault, fleet |-> fleet]
            /\ UNCHANGED <<containers, dirs, cache, now,
                           emitted, registry, streams, events, added, pruned, restarts>>

\* The rest of the deploy route for a deployment that passed the check:
\* deploy_agent, the start when asked for, and the failure path.
DeployFinish(d, autoStart, createFault, startFault) ==
    /\ d \in deploying
    /\ LET r == DeployAgent(containers, dirs, d, d, createFault)
           st == IF r.res = "ok" /\ autoStart
                 THEN StartContainer(r.containers, d, startFault)
                 ELSE [containers |-> r.containers, res |-> r.res]
       IN /\ containers' = st.containers
          /\ dirs' = IF st.res = "ok" THEN r.dirs ELSE RouteFailureCleanup(r.dirs, d)
          /\ last' = [op |-> "deploy", id |-> d,
                      res |-> IF st.res = "ok" THEN "ok" ELSE "DeploymentFailed",
                      auto |-> autoStart, listFault |-> FALSE,
                      createFault |-> createFault,
                      startFault |-> (r.res = "ok" /\ autoStart /\ startFault),
                      fleet |-> Cardinality(ListContainers(containers))]
    /\ deploying' = deploying \ {d}
    /\ UNCHANGED <<nextId, cache, now,
                   emitted, registry, streams, events, added, pruned, restarts>>

NextDeploys ==
    \/ \E lf \in BOOLEAN : DeployCheck(lf)
    \/ \E d \in Ids, a \in BOOLEAN, cf \in {"none", "APIError", "EngineError"},
          sf \in BOOLEAN : DeployFinish(d, a, cf, sf)
    \/ \E c \in Ids, f \in BOOLEAN : Remove(c, TRUE, f)

SpecDeploys == Init /\ [][NextDeploys]_vars

\* ------------------------------------------- the container's environment
\* Names and values of caller-supplied environment variables.  Every name of
\* EnvNames matches ^[A-Za-z_][A-Za-z0-9_]*$, so validate_environment_vars
\* passes every such request.
EnvNames == {"DEPLOYMENT_ID", "AGENT_ID", "AGENT_NAME", "PATH"}
EnvValues == {"1", "a1", "x"}
AgentIds == {"a1", "a2"}

\* str(uuid.uuid4()): the text of the deployment id.
DeploymentIdText(d) == ToString(d)

\* {**a, **b}: the keys of both; a key of both takes the value of b.
DictMerge(a, b) ==
    [k \in DOMAIN a \cup DOMAIN b |-> IF k \in DOMAIN b THEN b[k] ELSE a[k]]

\* deploy_agent, env_vars: the three identity variables, then the caller's.
EnvVars(deployment_id, agent_id, agent_name, environment_vars) ==
    DictMerge([DEPLOYMENT_ID |-> deployment_id, AGENT_ID |-> agent_id,
               AGENT_NAME |-> agent_name],
              environment_vars)

\* deploy_agent, labels of the create call.
Labels(deployment_id, agent_id, agent_name) ==
    [deployment_id |-> deployment_id, agent_id |-> agent_id,
     agent_name |-> agent_name, laias |-> "agent"]

\* POST /api/deploy for a request with environment variables, engine calls
\* succeeding: the route hands request.environment_vars to deploy_agent.
DeployWithEnv(autoStart) ==
    /\ last.op = "request"
    /\ nextId <= NumIds
    /\ LET d == nextId
           r == DeployAgent(containers, dirs, d, d, "none")
           st == IF autoStart THEN StartContainer(r.containers, d, FALSE)
                 ELSE [containers |-> r.containers, res |-> "ok"]
       IN /\ containers' = st.containers
          /\ dirs' = r.dirs
          /\ nextId' = nextId + 1
          /\ last' = [op |-> "deploy", id |-> d, res |-> "ok",
                      supplied |-> DOMAIN last.environment_vars,
                      environment |-> EnvVars(DeploymentIdText(d), last.agent_id,
                                              last.agent_name, last.environment_vars),
                      labels |-> Labels(DeploymentIdText(d), last.agent_id,
                                        last.agent_name)]
    /\ UNCHANGED <<svcVars, cache, now>>

InitEnv ==
    /\ containers = [c \in Ids |-> NoContainer]
    /\ dirs = [d \in Ids |-> NoDir]
    /\ nextId = 1
    /\ cache = [c \in Ids |-> NoEntry]
    /\ now = 0
    /\ \E S \in SUBSET EnvNames :
          last \in [op : {"request"}, id : {0}, res : {"pending"},
                    agent_id : AgentIds, agent_name : {"n1"},
                    environment_vars : [S -> EnvValues]]
    /\ IdleServices

NextEnv == \E a \in BOOLEAN : DeployWithEnv(a)

SpecEnv == InitEnv /\ [][NextEnv]_vars

\* ====================================================================
\* Properties
\* ====================================================================
Range(f) == {f[i] : i \in DOMAIN f}
Status(c) == containers[c].status
Labelled(d) == GetDeploymentContainers(containers, d)

\* C1: when the create step of a deploy call fails with any engine error, the
\* code directory of that deployment does not exist once the caller sees the
\* failure.
Claim_C1 ==
    (last.op = "deploy" /\ last.id # 0 /\ last.createFault # "none")
        => ~dirs[last.id].exists

\* C2: in every reachable state a code directory exists exactly when a
\* container labelled with that deployment id exists.
Claim_C2 ==
    \A d \in Ids : dirs[d].exists <=> Labelled(d) # {}

Thm_C4 ==
    (last.op = "removeDeployment" /\ last.afterDeploy /\ last.res = "ok" /\ last.faults = {})
        => /\ ~dirs[last.id].exists
           /\ dirs[last.id].files = {}
           /\ Labelled(last.id) = {}
           /\ last.count = 1

Witness_C4 ==
    /\ last.op = "removeDeployment" /\ last.afterDeploy
    /\ last.res = "ok" /\ last.faults = {} /\ last.count = 1

\* A step of the deploy route (a repeated identical rejection changes nothing).
DeployStep == last'.op = "deploy" /\ last' # last
Fleet == Cardinality(ListContainers(containers))

By(op, c) == last'.op = op /\ last'.id = c
ByDep(op, c) == last'.op = op /\ last'.id = containers[c].dep

\* The creation of a container by deploy (created, or running with auto-start).
Creation(c) ==
    /\ Status(c) = "none" /\ By("deploy", c)
    /\ \/ containers'[c].status = "created"
       \/ containers'[c].status = "running" /\ last'.auto

\* A start, stop or remove call that failed.
FailedStep ==
    /\ last' # last
    /\ last'.op \in {"start", "stop", "remove"}
    /\ last'.res # "ok"

\* C6 as stated: a status changes only along created -(start)-> running
\* -(stop)-> stopped -(remove)-> removed, and a failing start, stop or remove
\* leaves the status as it was.
Claim_C6 ==
    [][/\ \A c \in Ids :
            Status(c) # containers'[c].status =>
                \/ Creation(c)
                \/ Status(c) = "created" /\ containers'[c].status = "running" /\ By("start", c)
                \/ Status(c) = "running" /\ containers'[c].status = "exited"
                       /\ (By("stop", c) \/ ByDep("stopAll", c))
                \/ Status(c) = "exited" /\ containers'[c].status = "none"
                       /\ (By("remove", c) \/ ByDep("removeDeployment", c))
       /\ FailedStep => containers' = containers]_vars

\* C6 amended: a status changes only along created -(start)-> running,
\* stopped -(start)-> running, running -(stop)-> stopped, created or stopped
\* -(remove)-> removed and running -(forced remove, removeDeployment)->
\* removed; a failing start, stop or remove leaves containers and code root
\* as they were; after a failed start, stop or remove of an existing
\* container the same call can succeed.
Thm_C6 ==
    /\ [][/\ \A c \in Ids :
               Status(c) # containers'[c].status =>
                   \/ Creation(c)
                   \/ Status(c) \in {"created", "exited"} /\ containers'[c].status = "running"
                          /\ By("start", c) /\ last'.res = "ok"
                   \/ Status(c) = "running" /\ containers'[c].status = "exited"
                          /\ ((By("stop", c) /\ last'.res = "ok") \/ ByDep("stopAll", c))
                   \/ Status(c) \in {"created", "exited"} /\ containers'[c].status = "none"
                          /\ ((By("remove", c) /\ last'.res = "ok")
                              \/ ByDep("removeDeployment", c))
                   \/ Status(c) = "running" /\ containers'[c].status = "none"
                          /\ ((By("remove", c) /\ last'.force /\ last'.res = "ok")
                              \/ ByDep("removeDeployment", c))
          /\ FailedStep => (containers' = containers /\ dirs' = dirs)]_vars
    /\ [](\A c \in Ids :
            /\ (last.op = "start" /\ last.id = c /\ last.res = "APIError")
                   => ENABLED (Start(c, FALSE) /\ last'.res = "ok"
                               /\ containers'[c].status = "running")
            /\ (last.op = "stop" /\ last.id = c /\ last.res = "APIError")
                   => ENABLED (Stop(c, FALSE) /\ last'.res = "ok"
                               /\ containers'[c].status # "running")
            /\ (last.op = "remove" /\ last.id = c /\ last.res = "APIError")
                   => ENABLED (Remove(c, TRUE, FALSE) /\ last'.res = "ok"
                               /\ containers'[c].status = "none"))

Witness_C6 ==
    /\ last.op = "start" /\ last.retry /\ last.res = "ok"
    /\ Status(last.id) = "running"

\* A step of get_metrics (a repeated call at the same instant with the same
\* answer changes nothing).
GetStep == last'.op = "getMetrics" /\ last' # last

\* C7: get_metrics serves a cached snapshot only if the time of the call
\* minus the snapshot's timestamp is below the TTL; in every other case, for
\* a container that exists and an engine that answers, it fetches the
\* stats, returns the recomputed snapshot and replaces the cache entry.
Claim_C7 ==
    [][GetStep =>
         LET id == last'.id
         IN /\ last'.hit => (last'.res.kind = "ok" /\ now - last'.res.ts < cache_ttl)
            /\ (~last'.hit /\ Exists(containers, id) /\ last'.res.kind # "APIError")
                   => /\ last'.res.kind = "ok"
                      /\ last'.fetched
                      /\ cache'[id].has
                      /\ cache'[id].ts = last'.res.ts]_vars

\* C8: of two successive getMetrics(id) calls less than the TTL apart, on a
\* container that exists and an engine that answers, the second returns the
\* snapshot of the first and causes no engine fetch.
Claim_C8 ==
    [][(/\ GetStep
        /\ last.op = "getMetrics" /\ last.id = last'.id
        /\ last.res.kind \notin {"NotFound", "APIError"}
        /\ last'.res.kind \notin {"NotFound", "APIError"}
        /\ last'.t0 - last.t0 < cache_ttl)
          => (last'.res.kind = "ok" /\ last'.res = last.res /\ ~last'.fetched)]_vars

Thm_C10 ==
    (last.op \in {"stopAll", "removeDeployment"} /\ last.res = "ok") =>
        /\ last.attempted = last.targets
        /\ last.count = Cardinality(last.targets \ last.faults)
        /\ \A c \in last.targets \ last.faults :
               IF last.op = "stopAll" THEN Status(c) = "exited" ELSE Status(c) = "none"
        /\ \A c \in last.faults :
               IF last.op = "stopAll" THEN Status(c) = "running" ELSE Exists(containers, c)

Witness_C10 ==
    /\ last.op \in {"stopAll", "removeDeployment"}
    /\ last.res = "ok"
    /\ \E c \in last.faults : \E c2 \in last.targets \ last.faults : c < c2
    /\ last.count >= 1
\* C11: within one log stream the entries delivered to the consumer never go
\* back in timestamp, for the generator alone (no history) and for the
\* channel that sends the last `tail` lines and then the live stream.
Claim_C11 ==
    [][\A s \in Streams : streams'[s].lastTs >= streams[s].lastTs]_vars

\* C12: after stop_stream was called while a stream was active, that stream
\* delivers no further entry.
Claim_C12 ==
    [][\A s \in Streams :
         streams[s].stopped => ~(streams'[s].pc = "yield" /\ streams'[s].pos > streams[s].pos)]_vars

\* C13: once the consumer of a log stream is gone, the engine log handle of
\* its stream is eventually released.
Claim_C13 ==
    \A s \in Streams :
        [](streams[s].conn = "closed" => <>(~HandleOpen(streams[s])))

\* The sequence numbers lo..hi in order.
Numbers(lo, hi) == [i \in 1..(hi - lo + 1) |-> lo + i - 1]
Min(a, b) == IF a <= b THEN a ELSE b

\* C14: add_event never fails or rejects, the store never holds more than
\* its capacity, and as long as only add_event has changed the store its
\* contents are the most recent min(n, capacity) of the n events added, in
\* insertion order.
Thm_C14 ==
    /\ Len(events) <= max_events
    /\ last.op = "addEvent" =>
           (last.res = "ok" /\ events # <<>> /\ events[Len(events)] = last.ev)
    /\ pruned = 0 =>
           /\ Len(events) = Min(added, max_events)
           /\ [i \in 1..Len(events) |-> events[i].n]
                  = Numbers(added - Min(added, max_events) + 1, added)

\* The store has overflowed: more events were added than it holds.
Witness_C14 ==
    /\ last.op = "addEvent" /\ pruned = 0
    /\ added > max_events /\ Len(events) = max_events

\* C15: for every stats sample the reported cpu_percent is at least 0, is 0
\* when the system delta is not positive, and otherwise is the cpu delta
\* over the system delta times 100 (to two decimals).
Claim_C15 ==
    last.op = "stats" =>
        LET cpuDelta == last.cpu - last.precpu
            systemDelta == last.sys - last.presys
        IN /\ last.cpu_percent >= 0
           /\ systemDelta <= 0 => last.cpu_percent = 0
           /\ systemDelta > 0 => last.cpu_percent = RoundDiv(cpuDelta * 10000, systemDelta)

\* C16: get_rate_metrics on a running container whose engine answers
\* returns rates computed from two samples that both bypass the cache (both
\* are fetched from the engine during the call) and are interval seconds
\* apart, and the rates are at least 0.
Claim_C16 ==
    (last.op = "getRateMetrics" /\ last.running /\ last.res # "APIError") =>
        /\ last.res = "ok"
        /\ last.fetched1 /\ last.fetched2
        /\ last.ts2 - last.ts1 = last.interval
        /\ last.rx_delta >= 0

\* C17: detect_high_usage completes for every set of metrics and alerts
\* for exactly the running containers (whose engine answers) that breach a
\* threshold, each alert naming exactly the thresholds breached.
Claim_C17 ==
    last.op = "detectHighUsage" =>
        LET breach(c) == (IF last.stats[c].cpu > last.cpuT THEN {"CPU"} ELSE {})
                            \cup (IF /\ last.stats[c].limit > 0
                                     /\ last.stats[c].usage * 100 > last.memT * last.stats[c].limit
                                  THEN {"Memory"} ELSE {})
            expected == {c \in last.running \ last.faults : breach(c) # {}}
        IN /\ last.res = "ok"
           /\ DOMAIN last.alerts = expected
           /\ \A c \in expected : last.alerts[c] = breach(c)

\* A name of letters, digits and underscores that does not start with a
\* digit (the characters of Chars stand for their classes).
IsIdentifier(key) ==
    /\ Len(key) >= 1
    /\ IsNameStart(key[1])
    /\ \A i \in 2..Len(key) : IsNameChar(key[i])

\* C18: a deploy request whose memory_limit does not match ^\d+[mgMG]$ or
\* whose environment-variable name is not a valid identifier is rejected and
\* nothing is written, created or started for it.
Claim_C18 ==
    [][(/\ last.op = "request"
        /\ ~ValidateMemoryLimit(last.memory_limit) \/ ~IsIdentifier(last.key))
          => /\ last'.res = "ValidationError"
             /\ containers' = containers
             /\ dirs' = dirs
             /\ nextId' = nextId]_vars

\* C19: for every accepted deploy request the create call receives
\* cpu_period = 100000, cpu_quota = cpu_limit x 100000 (cpu_limit is held in
\* hundredths, so 1000 per hundredth) and the lower-cased memory_limit.
Claim_C19 ==
    [][(last.op = "request" /\ last'.res = "ok")
          => /\ last'.create.cpu_period = 100000
             /\ last'.create.cpu_quota = last.cpu_limit * 1000
             /\ last'.create.mem_limit = Lower(last.memory_limit)]_vars

PlainLines_C20 ==
    (last.op = "parseLogLine" /\ last.line.kind = "plain") =>
        /\ last.entry.level \in {"TRACE", "DEBUG", "INFO", "WARNING", "ERROR", "CRITICAL"}
        /\ last.entry.source \in {"flow", "agent", "http", "task", "container"}

\* C21: a plain line "<timestamp> <LEVEL> <text>", LEVEL one of the six
\* level names and <text> free of level tokens and source markers, parses to
\* level LEVEL, source container, a message holding <text> and the engine's
\* timestamp without its sub-second part; with no level token the level is
\* INFO.
Claim_C21 ==
    (/\ last.op = "parseLogLine"
     /\ last.line.kind = "plain" /\ last.line.stamped
     /\ Len(last.line.words) = 2
     /\ last.line.words[2] = [word |-> "hello", mark |-> "none"]
     /\ last.line.words[1].mark = "none"
     /\ last.line.words[1].word
            \in {"TRACE", "DEBUG", "INFO", "WARNING", "ERROR", "CRITICAL", "hello"})
        => /\ last.entry.level = IF last.line.words[1].word = "hello" THEN "INFO"
                                 ELSE last.line.words[1].word
           /\ last.entry.source = "container"
           /\ last.entry.message[Len(last.entry.message)] = last.line.words[2]
           /\ last.entry.timestamp = [from |-> "engine", fraction |-> FALSE]

\* C22: after every successful deploy the deployment's directory holds
\* exactly the three artifacts: the flow code, the agent configuration and
\* the requirements file.
Claim_C22 ==
    (last.op = "deploy" /\ last.res = "ok") =>
        /\ dirs[last.id].exists
        /\ dirs[last.id].files = Files

\* C23: start of a running container and stop of a stopped one raise no
\* error and leave the status as it is, and a restart of an existing
\* container, the engine answering, stops before it starts and ends with the
\* container running.
Thm_C23 ==
    [][\A c \in Ids :
         /\ (By("start", c) /\ last' # last /\ Status(c) = "running"
                 /\ last'.res # "APIError")
                => (last'.res = "ok" /\ containers' = containers)
         /\ (By("stop", c) /\ last' # last /\ Status(c) = "exited"
                 /\ last'.res # "APIError")
                => (last'.res = "ok" /\ containers' = containers)
         /\ (By("restartStop", c) /\ ~restarts[c] /\ restarts'[c])
                => (Exists(containers, c) /\ containers'[c].status # "running")
         /\ (By("restart", c) /\ restarts[c] /\ ~restarts'[c]
                 /\ Exists(containers, c) /\ last'.res # "APIError")
                => /\ last'.res = "ok"
                   /\ last'.calls = <<"stop", "start">>
                   /\ containers'[c].status = "running"]_vars

\* A restart has gone through its stop and its start and ended well.
Witness_C23 ==
    /\ last.op = "restart" /\ last.res = "ok"
    /\ last.calls = <<"stop", "start">>
    /\ containers[last.id].status = "running"

\* C24: for every combination of reachable and unreachable dependencies the
\* health check answers with a status: healthy exactly when the engine, the
\* database and Redis are reachable, degraded exactly when the engine is and
\* another dependency is not, unhealthy exactly when the engine is not.
Claim_C24 ==
    last.op = "getHealth" =>
        /\ last.res = "ok"
        /\ last.status \in {"healthy", "degraded", "unhealthy"}
        /\ last.status = "healthy"
              <=> (last.probe.docker /\ last.probe.database /\ last.probe.redis)
        /\ last.status = "degraded"
              <=> (last.probe.docker /\ ~(last.probe.database /\ last.probe.redis))
        /\ last.status = "unhealthy" <=> ~last.probe.docker

\* The same when the engine is reachable.
EngineUp_C24 ==
    (last.op = "getHealth" /\ last.probe.docker) =>
        /\ last.res = "ok"
        /\ last.status = "healthy" <=> (last.probe.database /\ last.probe.redis)
        /\ last.status = "degraded" <=> ~(last.probe.database /\ last.probe.redis)

\* C25: under any interleaving of deploy calls, the listing answering or
\* not, the fleet never holds more than MAX_CONTAINERS containers.
Claim_C25 == Cardinality(ListContainers(containers)) <= MAX_CONTAINERS

\* C26: two streams on one container are independent: a stream whose
\* consumer is still connected leaves its loop before the log ends only if
\* stop_stream was called after it started, so the end of the other stream
\* does not end it.
Claim_C26 ==
    [][\A s \in Streams :
         (/\ streams[s].pc \in {"yield", "blocked"}
          /\ streams[s].conn = "open"
          /\ streams'[s].pc = "done") => streams[s].stopped]_vars

Claim_C28 ==
    (last.op = "deploy" /\ last.res = "ok")
        => /\ {"DEPLOYMENT_ID", "AGENT_ID", "AGENT_NAME"} \subseteq DOMAIN last.environment
           /\ last.environment["DEPLOYMENT_ID"] = last.labels.deployment_id
           /\ last.environment["AGENT_ID"] = last.labels.agent_id
           /\ last.environment["AGENT_NAME"] = last.labels.agent_name
           /\ last.labels.laias = "agent"

\* The step is an operation on deployment e: a deploy that generated e, a
\* remove_deployment of e, or a start, stop or remove of a container
\* labelled e.
Targets_C29(e) ==
    \/ last'.op \in {"deploy", "removeDeployment"} /\ last'.id = e
    \/ /\ last'.op \in {"start", "stop", "remove"}
       /\ Exists(containers, last'.id)
       /\ containers[last'.id].dep = e

\* C29: an operation on one deployment, its failure and rollback included,
\* leaves the container (status and labels) and the code directory of every
\* other deployment as they were.
Thm_C29 ==
    [][\A e \in Ids :
         ~Targets_C29(e) => (containers'[e] = containers[e] /\ dirs'[e] = dirs[e])]_vars

\* A deploy failed at its create call and was rolled back, or a removal was
\* done, while another deployment has its container and its directory.
Witness_C29 ==
    /\ \/ last.op = "deploy" /\ last.res = "DeploymentFailed" /\ last.createFault = "APIError"
       \/ last.op \in {"remove", "removeDeployment"} /\ last.res = "ok" /\ last.changed
    /\ \E e \in Ids \ {last.id} : Exists(containers, e) /\ dirs[e].exists

\* C30: for every limit >= 0, get_recent_events(limit) returns the last
\* min(limit, size) events of the store in insertion order, so never more
\* than limit events, and leaves the store as it was.
Claim_C30 ==
    last.op = "getRecentEvents" =>
        LET size == Len(last.before)
            k == Min(last.id, size)
        IN /\ last.out = SubSeq(last.before, size - k + 1, size)
           /\ Len(last.out) <= last.id
           /\ events = last.before

\* Every limit but 0 is answered as C30 says.
Positive_C30 ==
    (last.op = "getRecentEvents" /\ last.id > 0) =>
        /\ last.out = SubSeq(last.before, Len(last.before) - Min(last.id, Len(last.before)) + 1,
                             Len(last.before))
        /\ events = last.before

====
